---- MODULE Spec2Model ----
\* Model of the Sokoban event loop in src/main.rs: one action per input
\* cycle (do_action followed by finish_if_solved), over the GameState fields.
EXTENDS Integers, Sequences, FiniteSets, TLC

VARIABLES grid, player_position, level, scores, moves, pc

vars ==
    <<grid, player_position, level, scores, moves, pc>>

\* ---------------------------------------------------------------- bounds
\* A Move or ReverseMove is explored only while the counts recorded in
\* scores (best and current, over all levels) sum to less than this.
MaxTotalScore ==
    3

\* ------------------------------------------------------------ enumerations
MoveDirection ==
    {"Up", "Right", "Down", "Left"}

Level ==
    {"One", "Two", "Three", "Four", "Five"}

\* Option<Level>::None
NoLevel ==
    "None"

\* ------------------------------------------------------------- level data
GridOne ==
    << <<"#","#","#","#","#">>,
       <<"#"," "," "," ","#">>,
       <<"#",".","$","@","#">>,
       <<"#"," "," "," ","#">>,
       <<"#","#","#","#","#">> >>

StartOne ==
    <<3, 2>>

GridTwo ==
    << <<" "," "," "," "," ","#","#","#","#">>,
       <<"#","#","#","#","#","#"," "," ","#">>,
       <<"#"," "," "," "," "," "," "," ","#">>,
       <<"#"," "," "," "," "," "," ",".","#">>,
       <<"#","@"," ","#","#","#","#","#","#","#">>,
       <<"#","#"," "," "," "," "," "," "," ","#">>,
       <<" ","#"," ","#"," ","#"," "," "," ","#">>,
       <<" ","#"," "," "," "," "," ","$"," ","#">>,
       <<" ","#"," "," "," ","#","#","#","#","#">>,
       <<" ","#","#","#","#","#">> >>

StartTwo ==
    <<1, 4>>

GridThree ==
    << <<"#","#","#","#","#"," "," ","#","#","#","#"," "," ","#","#","#","#","#">>,
       <<"#"," "," "," ","#","#","#","#"," "," ","#","#","#","#"," "," "," ","#">>,
       <<"#"," "," "," "," "," "," "," "," "," "," "," "," "," "," "," "," ","#">>,
       <<"#","#"," "," "," "," "," "," "," "," ","#","#","#"," "," "," ","#","#">>,
       <<" ","#","#"," ","$"," "," ","#"," ",".","."," ","$"," ","@","#","#">>,
       <<"#","#"," "," ","#","#"," "," "," ","#","#","#","#"," "," "," ","#","#">>,
       <<"#"," "," "," "," "," "," "," "," "," "," "," "," "," "," "," "," ","#">>,
       <<"#"," "," "," ","#","#","#","#","#","#","#","#","#","#"," "," "," ","#">>,
       <<"#","#","#","#","#"," "," "," "," "," "," "," "," ","#","#","#","#","#">> >>

StartThree ==
    <<3, 2>>

GridFour ==
    << <<" ","#","#","#","#","#">>,
       <<"#","#"," "," "," ","#">>,
       <<"#"," "," "," "," ","#","#">>,
       <<"#"," "," ","#"," "," ","#">>,
       <<"#"," ","$","#"," ",".","#","#","#">>,
       <<"#"," "," ","#","*","."," "," ","#">>,
       <<"#"," ","$"," ","$","."," "," ","#">>,
       <<"#"," "," ","#","$",".","#","#","#">>,
       <<"#","#","#","#"," ",".","#">>,
       <<" "," ","#","#","$",".","#">>,
       <<" "," ","#"," ","$","*","#">>,
       <<" "," ","#"," "," ","@","#">>,
       <<" "," ","#","#","#","#","#">> >>

StartFour ==
    <<3, 2>>

GridFive ==
    << <<" ","#","#","#","#">>,
       <<"#","#"," "," ","#","#","#">>,
       <<"#"," "," "," "," "," ","#","#","#">>,
       <<"#"," ","#","*","*","*","."," ","#">>,
       <<"#"," "," ","*"," "," ","#"," ","#">>,
       <<"#"," "," ","*"," "," "," "," ","#">>,
       <<"#"," "," ","*","*","*","#","#","#","#">>,
       <<"#","#","#","#"," "," ","*"," "," ","#">>,
       <<" ","#"," ","*"," "," ","*"," "," ","#">>,
       <<" ","#"," ","$","*","*"," "," "," ","#">>,
       <<" ","#"," "," "," ","@","#"," "," ","#">>,
       <<" ","#","#","#","#","#","#","#","#","#">> >>

StartFive ==
    <<3, 2>>

WelcomeRow ==
    <<"W","e","l","c","o","m","e","!"," ","P","r","e","s","s"," ","\"","m","\""," ","t","o"," ","g","o"," ","t","o"," ","l","e","v","e","l"," ","s","e","l","e","c","t",".">>

PickerRow1 ==
    <<"C","h","o","o","s","e"," ","l","e","v","e","l",":">>

PickerRow2 ==
    <<"1"," ","-"," ","T","u","t","o","r","i","a","l">>

PickerRow3 ==
    <<"2"," ","-"," ","E","a","s","y">>

PickerRow4 ==
    <<"3"," ","-"," ","M","e","d","i","u","m">>

PickerRow5 ==
    <<"4"," ","-"," ","H","a","r","d">>

WonRecordA ==
    <<"Y","o","u"," ","w","o","n","!"," ","N","e","w"," ","r","e","c","o","r","d"," ","-"," ","y","o","u"," ","c","o","m","p","l","e","t","e","d"," ","t","h","i","s"," ","l","e","v","e","l"," ","i","n"," ">>

WonRecordB ==
    <<" ","m","o","v","e","s","."," ","Y","o","u","r"," ","l","o","w","e","s","t"," ","n","u","m","b","e","r"," ","o","f"," ","m","o","v","e","s"," ","f","o","r"," ","t","h","i","s"," ","l","e","v","e","l"," ","p","r","e","v","i","o","u","s","l","y"," ","w","a","s"," ">>

WonRecordC ==
    <<"."," ","P","r","e","s","s"," ","\"","m","\""," ","t","o"," ","g","o"," ","b","a","c","k"," ","t","o"," ","t","h","e"," ","m","a","i","n"," ","m","e","n","u",".">>

WonA ==
    <<"Y","o","u"," ","w","o","n","!"," ","Y","o","u"," ","c","o","m","p","l","e","t","e","d"," ","t","h","i","s"," ","l","e","v","e","l"," ","i","n"," ">>

WonB ==
    <<" ","m","o","v","e","s","."," ","Y","o","u","r"," ","l","o","w","e","s","t"," ","n","u","m","b","e","r"," ","o","f"," ","m","o","v","e","s"," ","f","o","r"," ","t","h","i","s"," ","l","e","v","e","l"," ","i","s"," ">>

WonC ==
    <<"."," ","P","r","e","s","s"," ","\"","m","\""," ","t","o"," ","g","o"," ","b","a","c","k"," ","t","o"," ","t","h","e"," ","m","a","i","n"," ","m","e","n","u",".">>

\* --------------------------------------------------------------- screens
\* startup(): the single-row welcome screen
WelcomeText ==
    <<WelcomeRow>>

\* choose_level(): the five-row level picker
LevelPickerText ==
    <<PickerRow1, PickerRow2, PickerRow3, PickerRow4, PickerRow5>>

DigitChar ==
    <<"0", "1", "2", "3", "4", "5", "6", "7", "8", "9">>

RECURSIVE Digits(_)
Digits(n) ==
    IF n < 10 THEN <<DigitChar[n + 1]>>
    ELSE Digits(n \div 10) \o <<DigitChar[(n % 10) + 1]>>

\* format!("{}", n) of an i32, as a sequence of chars
FormatI32(n) ==
    IF n < 0 THEN <<"-">> \o Digits(0 - n) ELSE Digits(n)

\* the "new record" screen of finish_if_solved
WonRecordText(cur_score, high_score) ==
    << WonRecordA \o FormatI32(cur_score) \o WonRecordB
       \o FormatI32(high_score) \o WonRecordC >>

\* the "no record" screen of finish_if_solved
WonText(cur_score, high_score) ==
    << WonA \o FormatI32(cur_score) \o WonB \o FormatI32(high_score) \o WonC >>

\* ------------------------------------------------------------ grid access
\* y is a valid index of grid (grid[y as usize] does not panic)
RowInRange(g, y) ==
    y >= 0 /\ y < Len(g)

\* grid[coords.1 as usize][coords.0 as usize] does not panic
InRange(g, coords) ==
    /\ RowInRange(g, coords[2])
    /\ coords[1] >= 0
    /\ coords[1] < Len(g[coords[2] + 1])

\* grid[coords.1 as usize][coords.0 as usize]
Cell(g, coords) ==
    g[coords[2] + 1][coords[1] + 1]

set_grid_cell(g, coords, contents) ==
    [g EXCEPT ![coords[2] + 1][coords[1] + 1] = contents]

Max(a, b) ==
    IF a >= b THEN a ELSE b

Min(a, b) ==
    IF a <= b THEN a ELSE b

\* next_position: one step in the direction, clamped to 0 and to the last
\* index of the current row (Right) or of the grid (Down)
next_position(direction, current_position, g) ==
    CASE direction = "Up" ->
           <<current_position[1], Max(0, current_position[2] - 1)>>
      [] direction = "Right" ->
           <<Min(Len(g[current_position[2] + 1]) - 1, current_position[1] + 1),
             current_position[2]>>
      [] direction = "Down" ->
           <<current_position[1], Min(Len(g) - 1, current_position[2] + 1)>>
      [] direction = "Left" ->
           <<Max(0, current_position[1] - 1), current_position[2]>>

\* next_position indexes grid[current_position.1] only for Right
NextPositionPanics(direction, current_position, g) ==
    direction = "Right" /\ ~RowInRange(g, current_position[2])

\* ------------------------------------------------------------- game state
\* The GameState struct plus the status of the thread that owns it.
GameState ==
    [grid |-> grid, player_position |-> player_position, level |-> level,
     scores |-> scores, moves |-> moves, pc |-> pc]

\* a panic!() unwinds main: the state is left as it was at that point
Panic(gs) ==
    [gs EXCEPT !.pc = "panicked"]

\* play_sound: File::open(path).unwrap() and Decoder::new(..).unwrap()
\* succeed or panic depending on the files found at run time
play_sound(gs, sound_ok) ==
    IF sound_ok THEN gs ELSE Panic(gs)

\* ResetCurrent as a plain insert((0, 0)): the recorded best is lost
ResetCurrent_Insert(sc, lvl) ==
    [l \in DOMAIN sc \cup {lvl} |-> IF l = lvl THEN <<0, 0>> ELSE sc[l]]

\* scores.entry(level).and_modify(|val| val.1 = 0).or_insert((0, 0))
ResetCurrent(sc, lvl) ==
    IF lvl \in DOMAIN sc
    THEN [sc EXCEPT ![lvl] = <<sc[lvl][1], 0>>]
    ELSE [l \in DOMAIN sc \cup {lvl} |-> IF l = lvl THEN <<0, 0>> ELSE sc[l]]

\* BumpCurrent without the and_modify: an existing entry is left alone
BumpCurrent_NoModify(sc, lvl) ==
    IF lvl \in DOMAIN sc
    THEN sc
    ELSE [l \in DOMAIN sc \cup {lvl} |-> IF l = lvl THEN <<0, 0>> ELSE sc[l]]

\* scores.entry(level).and_modify(|val| val.1 += 1).or_insert((0, 0))
\* (the counts explored stay far below the i32 range)
BumpCurrent(sc, lvl) ==
    IF lvl \in DOMAIN sc
    THEN [sc EXCEPT ![lvl] = <<sc[lvl][1], sc[lvl][2] + 1>>]
    ELSE [l \in DOMAIN sc \cup {lvl} |-> IF l = lvl THEN <<0, 0>> ELSE sc[l]]

StartGrid(lvl) ==
    CASE lvl = "One" -> GridOne
      [] lvl = "Two" -> GridTwo
      [] lvl = "Three" -> GridThree
      [] lvl = "Four" -> GridFour
      [] lvl = "Five" -> GridFive

StartPosition(lvl) ==
    CASE lvl = "One" -> StartOne
      [] lvl = "Two" -> StartTwo
      [] lvl = "Three" -> StartThree
      [] lvl = "Four" -> StartFour
      [] lvl = "Five" -> StartFive

\* start_level without the clearing of the move history
start_level_KeepMoves(gs, lvl) ==
    [gs EXCEPT !.scores = ResetCurrent(gs.scores, lvl),
               !.grid = StartGrid(lvl),
               !.player_position = StartPosition(lvl)]

start_level(gs, lvl) ==
    [gs EXCEPT !.moves = <<>>,
               !.scores = ResetCurrent(gs.scores, lvl),
               !.grid = StartGrid(lvl),
               !.player_position = StartPosition(lvl)]

choose_level(gs) ==
    [gs EXCEPT !.grid = LevelPickerText]

\* ------------------------------------------------------------ player_move
\* lines 351-365: vacate the previous cell, commit the position, record the
\* direction, then bump the current count of game_state.level.unwrap()
CommitMove(gs, g, direction, record_as_move, cur_pos, cur_contents, next_pos) ==
    LET g1 == IF cur_contents = "@" THEN set_grid_cell(g, cur_pos, " ") ELSE g
        g2 == IF cur_contents = "+" THEN set_grid_cell(g1, cur_pos, ".") ELSE g1
        gs1 == [gs EXCEPT !.grid = g2,
                          !.player_position = next_pos,
                          !.moves = IF record_as_move
                                    THEN Append(gs.moves, direction)
                                    ELSE gs.moves]
    IN  IF gs1.level = NoLevel
        THEN Panic(gs1)
        ELSE [gs1 EXCEPT !.scores = BumpCurrent(gs1.scores, gs1.level)]

\* PushBox that rejects a push only against a wall, not against a box
PushBox_WallOnly(gs, g, direction, record_as_move, cur_pos, cur_contents, next_pos, next_contents, sound_ok) ==
    LET plusone == next_position(direction, next_pos, g)
    IN  IF NextPositionPanics(direction, next_pos, g) \/ ~InRange(g, plusone)
        THEN Panic(gs)
        ELSE LET plusone_contents == Cell(g, plusone)
             IN  IF plusone_contents = "#"
                 THEN play_sound(gs, sound_ok)
                 ELSE LET g1 == IF plusone_contents = " "
                                THEN set_grid_cell(g, plusone, "$") ELSE g
                          g2 == IF plusone_contents = "."
                                THEN set_grid_cell(g1, plusone, "*") ELSE g1
                          g3 == IF next_contents = "$"
                                THEN set_grid_cell(g2, next_pos, "@") ELSE g2
                          g4 == IF next_contents = "*"
                                THEN set_grid_cell(g3, next_pos, "+") ELSE g3
                     IN  CommitMove(gs, g4, direction, record_as_move,
                                    cur_pos, cur_contents, next_pos)

\* PushBox that writes a plain Box whatever the push cell held
PushBox_TargetAsFloor(gs, g, direction, record_as_move, cur_pos, cur_contents, next_pos, next_contents, sound_ok) ==
    LET plusone == next_position(direction, next_pos, g)
    IN  IF NextPositionPanics(direction, next_pos, g) \/ ~InRange(g, plusone)
        THEN Panic(gs)
        ELSE LET plusone_contents == Cell(g, plusone)
             IN  IF plusone_contents \in {"$", "*", "#"}
                 THEN play_sound(gs, sound_ok)
                 ELSE LET g2 == IF plusone_contents \in {" ", "."}
                                THEN set_grid_cell(g, plusone, "$") ELSE g
                          g3 == IF next_contents = "$"
                                THEN set_grid_cell(g2, next_pos, "@") ELSE g2
                          g4 == IF next_contents = "*"
                                THEN set_grid_cell(g3, next_pos, "+") ELSE g3
                     IN  CommitMove(gs, g4, direction, record_as_move,
                                    cur_pos, cur_contents, next_pos)

\* lines 324-350: the target cell holds a box
PushBox(gs, g, direction, record_as_move, cur_pos, cur_contents, next_pos, next_contents, sound_ok) ==
    LET plusone == next_position(direction, next_pos, g)
    IN  IF NextPositionPanics(direction, next_pos, g) \/ ~InRange(g, plusone)
        THEN Panic(gs)
        ELSE LET plusone_contents == Cell(g, plusone)
             IN  IF plusone_contents \in {"$", "*", "#"}
                 THEN play_sound(gs, sound_ok)
                 ELSE LET g1 == IF plusone_contents = " "
                                THEN set_grid_cell(g, plusone, "$") ELSE g
                          g2 == IF plusone_contents = "."
                                THEN set_grid_cell(g1, plusone, "*") ELSE g1
                          g3 == IF next_contents = "$"
                                THEN set_grid_cell(g2, next_pos, "@") ELSE g2
                          g4 == IF next_contents = "*"
                                THEN set_grid_cell(g3, next_pos, "+") ELSE g3
                     IN  CommitMove(gs, g4, direction, record_as_move,
                                    cur_pos, cur_contents, next_pos)

\* player_move without the early return on a Wall target
player_move_NoWall(direction, gs, record_as_move, sound_ok) ==
    LET cur_pos == gs.player_position
        next_pos == next_position(direction, cur_pos, gs.grid)
    IN  IF \/ NextPositionPanics(direction, cur_pos, gs.grid)
           \/ ~InRange(gs.grid, next_pos)
           \/ ~InRange(gs.grid, cur_pos)
        THEN Panic(gs)
        ELSE LET next_contents == Cell(gs.grid, next_pos)
                 cur_contents == Cell(gs.grid, cur_pos)
                 g1 == IF next_contents = " "
                       THEN set_grid_cell(gs.grid, next_pos, "@") ELSE gs.grid
                 g2 == IF next_contents = "."
                       THEN set_grid_cell(g1, next_pos, "+") ELSE g1
             IN  IF next_contents \in {"$", "*"}
                 THEN PushBox(gs, g2, direction, record_as_move, cur_pos,
                              cur_contents, next_pos, next_contents, sound_ok)
                 ELSE CommitMove(gs, g2, direction, record_as_move,
                                 cur_pos, cur_contents, next_pos)

\* lines 300-366
player_move(direction, gs, record_as_move, sound_ok) ==
    LET cur_pos == gs.player_position
        next_pos == next_position(direction, cur_pos, gs.grid)
    IN  IF \/ NextPositionPanics(direction, cur_pos, gs.grid)
           \/ ~InRange(gs.grid, next_pos)
           \/ ~InRange(gs.grid, cur_pos)
        THEN Panic(gs)
        ELSE LET next_contents == Cell(gs.grid, next_pos)
                 cur_contents == Cell(gs.grid, cur_pos)
                 g1 == IF next_contents = " "
                       THEN set_grid_cell(gs.grid, next_pos, "@") ELSE gs.grid
                 g2 == IF next_contents = "."
                       THEN set_grid_cell(g1, next_pos, "+") ELSE g1
             IN  IF next_contents = "#"
                 THEN play_sound(gs, sound_ok)
                 ELSE IF next_contents \in {"$", "*"}
                 THEN PushBox(gs, g2, direction, record_as_move, cur_pos,
                              cur_contents, next_pos, next_contents, sound_ok)
                 ELSE CommitMove(gs, g2, direction, record_as_move,
                                 cur_pos, cur_contents, next_pos)

\* ------------------------------------------------------- finish_if_solved
\* grid.iter().flatten().find(|c| **c == '$')
HasBox(g) ==
    \E y \in 1..Len(g) : \E x \in 1..Len(g[y]) : g[y][x] = "$"

\* finish_if_solved without the "no record yet" test high_score == 0
finish_if_solved_NoSentinel(gs) ==
    IF ~HasBox(gs.grid) /\ gs.level # NoLevel
    THEN IF gs.level \notin DOMAIN gs.scores
         THEN Panic(gs)
         ELSE LET high_score == gs.scores[gs.level][1]
                  cur_score == gs.scores[gs.level][2]
              IN  IF cur_score < high_score
                  THEN [gs EXCEPT !.grid = WonRecordText(cur_score, high_score),
                                  !.scores[gs.level] = <<cur_score, 0>>,
                                  !.level = NoLevel]
                  ELSE [gs EXCEPT !.grid = WonText(cur_score, high_score),
                                  !.level = NoLevel]
    ELSE gs

finish_if_solved(gs) ==
    IF ~HasBox(gs.grid) /\ gs.level # NoLevel
    THEN IF gs.level \notin DOMAIN gs.scores
         THEN Panic(gs)
         ELSE LET high_score == gs.scores[gs.level][1]
                  cur_score == gs.scores[gs.level][2]
              IN  IF cur_score < high_score \/ high_score = 0
                  THEN [gs EXCEPT !.grid = WonRecordText(cur_score, high_score),
                                  !.scores[gs.level] = <<cur_score, 0>>,
                                  !.level = NoLevel]
                  ELSE [gs EXCEPT !.grid = WonText(cur_score, high_score),
                                  !.level = NoLevel]
    ELSE gs

\* ------------------------------------------------------------- read_input
KeyKinds ==
    {"Press", "Release"}

\* the mapped characters plus one character read_input does not map
KeyCodes ==
    {"q", "m", "w", "a", "s", "d", "1", "2", "3", "4", "5", "r", "b", "x"}

\* the characters whose non-press events are explored
ReleasedCodes ==
    {"q", "w"}

KeyEvents ==
    [kind : {"Press"}, code : KeyCodes] \cup [kind : {"Release"}, code : ReleasedCodes]

Cmd(type, arg) ==
    [type |-> type, arg |-> arg]

\* Option<Command>::None
NoCommand ==
    Cmd("None", "")

\* read_input without the KeyEventKind::Press test
read_input_AnyKind(key) ==
    CASE key.code = "q" -> Cmd("Quit", "")
      [] key.code = "m" -> Cmd("LevelChoose", "")
      [] key.code = "w" -> Cmd("Move", "Up")
      [] key.code = "a" -> Cmd("Move", "Left")
      [] key.code = "s" -> Cmd("Move", "Down")
      [] key.code = "d" -> Cmd("Move", "Right")
      [] key.code = "1" -> Cmd("LevelSelect", "One")
      [] key.code = "2" -> Cmd("LevelSelect", "Two")
      [] key.code = "3" -> Cmd("LevelSelect", "Three")
      [] key.code = "4" -> Cmd("LevelSelect", "Four")
      [] key.code = "5" -> Cmd("LevelSelect", "Five")
      [] key.code = "r" -> Cmd("Reset", "")
      [] key.code = "b" -> Cmd("ReverseMove", "")
      [] OTHER -> NoCommand

read_input(key) ==
    IF key.kind # "Press" THEN NoCommand
    ELSE CASE key.code = "q" -> Cmd("Quit", "")
           [] key.code = "m" -> Cmd("LevelChoose", "")
           [] key.code = "w" -> Cmd("Move", "Up")
           [] key.code = "a" -> Cmd("Move", "Left")
           [] key.code = "s" -> Cmd("Move", "Down")
           [] key.code = "d" -> Cmd("Move", "Right")
           [] key.code = "1" -> Cmd("LevelSelect", "One")
           [] key.code = "2" -> Cmd("LevelSelect", "Two")
           [] key.code = "3" -> Cmd("LevelSelect", "Three")
           [] key.code = "4" -> Cmd("LevelSelect", "Four")
           [] key.code = "5" -> Cmd("LevelSelect", "Five")
           [] key.code = "r" -> Cmd("Reset", "")
           [] key.code = "b" -> Cmd("ReverseMove", "")
           [] OTHER -> NoCommand

\* -------------------------------------------------------------- do_action
\* the match of ReverseMove on the popped direction
Inverse(direction) ==
    CASE direction = "Up" -> "Down"
      [] direction = "Down" -> "Up"
      [] direction = "Left" -> "Right"
      [] direction = "Right" -> "Left"

\* moves.pop(): the history without its last entry
Pop(s) ==
    SubSeq(s, 1, Len(s) - 1)

Ret(gs, ret) ==
    [gs |-> gs, ret |-> ret]

do_action(gs, key, sound_ok) ==
    LET command == read_input(key)
    IN  CASE command.type = "None" -> Ret(gs, -1)
          [] command.type = "Quit" -> Ret(gs, 1)
          [] command.type = "Reset" ->
               IF gs.level # NoLevel
               THEN Ret(start_level(gs, gs.level), 0)
               ELSE Ret(gs, 0)
          [] command.type = "LevelChoose" -> Ret(choose_level(gs), 0)
          [] command.type = "Move" ->
               Ret(player_move(command.arg, gs, TRUE, sound_ok), 0)
          [] command.type = "LevelSelect" ->
               Ret([start_level(gs, command.arg) EXCEPT !.level = command.arg], 0)
          [] command.type = "ReverseMove" ->
               IF Len(gs.moves) = 0
               THEN Ret(gs, 0)
               ELSE Ret(player_move(Inverse(gs.moves[Len(gs.moves)]),
                                    [gs EXCEPT !.moves = Pop(gs.moves)],
                                    FALSE, sound_ok), 0)

\* ------------------------------------------------------------------- main
\* One iteration of the loop for a key event: do_action, break on 1,
\* otherwise finish_if_solved (the draw changes no state).
AfterAction(r) ==
    IF r.gs.pc = "panicked" THEN r.gs
    ELSE IF r.ret = 1 THEN [r.gs EXCEPT !.pc = "quit"]
    ELSE finish_if_solved(r.gs)

LoopBody(gs, key, sound_ok) ==
    AfterAction(do_action(gs, key, sound_ok))

\* the sum of the counts recorded for the levels ls
RECURSIVE SumScores(_, _)
SumScores(sc, ls) ==
    IF ls = {} THEN 0
    ELSE LET l == CHOOSE x \in ls : TRUE
         IN  sc[l][1] + sc[l][2] + SumScores(sc, ls \ {l})

\* The moves explored from a state are those below the bound.
WithinBounds(key) ==
    (read_input(key).type \in {"Move", "ReverseMove"} /\ level # NoLevel)
       => SumScores(scores, DOMAIN scores) < MaxTotalScore

\* the key events that read_input maps to a command of this type
KeysOf(type) ==
    {key \in KeyEvents : read_input(key).type = type}

\* play_sound is called from player_move only: the outcome of opening and
\* decoding the sound file is an input of Move and ReverseMove cycles
SoundOutcomes(key) ==
    IF read_input(key).type \in {"Move", "ReverseMove"} THEN BOOLEAN ELSE {TRUE}

\* the states one iteration of the loop can end in for this key event
Cycle(key) ==
    IF pc = "running" /\ WithinBounds(key)
    THEN {LoopBody(GameState, key, sound_ok) : sound_ok \in SoundOutcomes(key)}
    ELSE {}

Quit ==
    \E key \in KeysOf("Quit") : \E after \in Cycle(key) :
        /\ grid' = after.grid
        /\ player_position' = after.player_position
        /\ level' = after.level
        /\ scores' = after.scores
        /\ moves' = after.moves
        /\ pc' = after.pc

Reset ==
    \E key \in KeysOf("Reset") : \E after \in Cycle(key) :
        /\ grid' = after.grid
        /\ player_position' = after.player_position
        /\ level' = after.level
        /\ scores' = after.scores
        /\ moves' = after.moves
        /\ pc' = after.pc

LevelChoose ==
    \E key \in KeysOf("LevelChoose") : \E after \in Cycle(key) :
        /\ grid' = after.grid
        /\ player_position' = after.player_position
        /\ level' = after.level
        /\ scores' = after.scores
        /\ moves' = after.moves
        /\ pc' = after.pc

Move ==
    \E key \in KeysOf("Move") : \E after \in Cycle(key) :
        /\ grid' = after.grid
        /\ player_position' = after.player_position
        /\ level' = after.level
        /\ scores' = after.scores
        /\ moves' = after.moves
        /\ pc' = after.pc

LevelSelect ==
    \E key \in KeysOf("LevelSelect") : \E after \in Cycle(key) :
        /\ grid' = after.grid
        /\ player_position' = after.player_position
        /\ level' = after.level
        /\ scores' = after.scores
        /\ moves' = after.moves
        /\ pc' = after.pc

ReverseMove ==
    \E key \in KeysOf("ReverseMove") : \E after \in Cycle(key) :
        /\ grid' = after.grid
        /\ player_position' = after.player_position
        /\ level' = after.level
        /\ scores' = after.scores
        /\ moves' = after.moves
        /\ pc' = after.pc

\* a key event read_input maps to no command: do_action returns -1 and
\* finish_if_solved still runs
Unmapped ==
    \E key \in KeysOf("None") : \E after \in Cycle(key) :
        /\ grid' = after.grid
        /\ player_position' = after.player_position
        /\ level' = after.level
        /\ scores' = after.scores
        /\ moves' = after.moves
        /\ pc' = after.pc

\* startup(), then the audio output is opened (lines 62-63); both unwraps
\* panic when there is no output device
Init ==
    /\ grid = WelcomeText
    /\ player_position = <<0, 0>>
    /\ level = NoLevel
    /\ scores = <<>>
    /\ moves = <<>>
    /\ pc \in {"running", "panicked"}

Next ==
    \/ Quit
    \/ Reset
    \/ LevelChoose
    \/ Move
    \/ LevelSelect
    \/ ReverseMove
    \/ Unmapped

Spec ==
    Init /\ [][Next]_vars

\* ------------------------------------------------- later stages of a level
\* A Move or ReverseMove is explored from the states below only while the
\* active level's current count is less than this.
DeepBound ==
    12

\* startup() with the audio output opened
StartupState ==
    [grid |-> WelcomeText, player_position |-> <<0, 0>>, level |-> NoLevel,
     scores |-> <<>>, moves |-> <<>>, pc |-> "running"]

\* the state main is in after the presses of the characters codes, every
\* sound cue played without failure; the loop ends at a quit or a panic
RECURSIVE Replay(_, _)
Replay(gs, codes) ==
    IF codes = <<>> \/ gs.pc # "running" THEN gs
    ELSE Replay(LoopBody(gs, [kind |-> "Press", code |-> Head(codes)], TRUE),
                Tail(codes))

\* one key sequence per level: the level is selected and the player walks
\* eight to ten steps into it
DeepPaths ==
    { <<"1", "w", "a", "a", "d", "d", "s", "s", "a", "a">>,
      <<"2", "d", "s", "d", "d", "d", "d", "d", "d">>,
      <<"3", "s", "d", "d", "d", "d", "d", "s", "d", "d", "d">>,
      <<"4", "d", "s", "s", "d", "s", "s", "s", "s">>,
      <<"5", "d", "s", "s", "d", "s", "s", "s", "d", "s">> }

DeepStates ==
    {Replay(StartupState, path) : path \in DeepPaths}

DeepInit ==
    \E gs \in DeepStates :
        /\ grid = gs.grid
        /\ player_position = gs.player_position
        /\ level = gs.level
        /\ scores = gs.scores
        /\ moves = gs.moves
        /\ pc = gs.pc

DeepCycle(key) ==
    IF pc = "running" /\ (level # NoLevel => scores[level][2] < DeepBound)
    THEN {LoopBody(GameState, key, sound_ok) : sound_ok \in SoundOutcomes(key)}
    ELSE {}

DeepMove ==
    \E key \in KeysOf("Move") : \E after \in DeepCycle(key) :
        /\ grid' = after.grid
        /\ player_position' = after.player_position
        /\ level' = after.level
        /\ scores' = after.scores
        /\ moves' = after.moves
        /\ pc' = after.pc

DeepReverseMove ==
    \E key \in KeysOf("ReverseMove") : \E after \in DeepCycle(key) :
        /\ grid' = after.grid
        /\ player_position' = after.player_position
        /\ level' = after.level
        /\ scores' = after.scores
        /\ moves' = after.moves
        /\ pc' = after.pc

DeepNext ==
    \/ DeepMove
    \/ DeepReverseMove

\* Move and ReverseMove cycles from the states reached by DeepPaths
SpecDeep ==
    DeepInit /\ [][DeepNext]_vars

TypeOK ==
    /\ level \in Level \cup {NoLevel}
    /\ pc \in {"running", "panicked", "quit"}
    /\ DOMAIN scores \subseteq Level
    /\ \A i \in 1..Len(moves) : moves[i] \in MoveDirection

\* ------------------------------------------------------ claim vocabulary
\* the number of Player / PlayerOnTarget cells of a grid
PlayerCells(g) ==
    Cardinality({c \in UNION {{<<x, y>> : x \in 0..(Len(g[y + 1]) - 1)} :
                                y \in 0..(Len(g) - 1)} :
                   Cell(g, c) \in {"@", "+"}})

Playing ==
    pc = "running" /\ level # NoLevel

\* the cell a Move in direction d targets, and the cell beyond it
TargetCell(d) ==
    next_position(d, player_position, grid)

PushCell(d) ==
    next_position(d, TargetCell(d), grid)

BlockedByWall(d) ==
    Cell(grid, TargetCell(d)) = "#"

BlockedByBox(d) ==
    /\ Cell(grid, TargetCell(d)) \in {"$", "*"}
    /\ Cell(grid, PushCell(d)) \in {"$", "*", "#"}

Rejected(d) ==
    BlockedByWall(d) \/ BlockedByBox(d)

\* the player steps onto Floor/Target or pushes a box
Successful(d) ==
    \/ Cell(grid, TargetCell(d)) \in {" ", "."}
    \/ /\ Cell(grid, TargetCell(d)) \in {"$", "*"}
       /\ Cell(grid, PushCell(d)) \notin {"$", "*", "#"}

\* a cycle that records a win: finish_if_solved clears the level
WinStep ==
    Playing /\ pc' = "running" /\ level' = NoLevel

\* C1: whenever a level is active exactly one cell of the grid is Player or
\* PlayerOnTarget.
C1_ExactlyOnePlayer ==
    level # NoLevel => PlayerCells(grid) = 1

\* C2: a win is recorded only by a Move cycle whose move removes the last
\* Box of the level's grid; no other command records a win.
C2_WinOnlyOnLastBox ==
    [][WinStep => (Move /\ HasBox(grid))]_vars

\* C3: a Move issued while no level is active is ignored: no crash and no
\* change of grid, position, level, scores or history.
C3_MoveWhileIdleIgnored ==
    [][(level = NoLevel /\ Move) => (pc' = "running" /\ UNCHANGED vars)]_vars

\* C4: an UndoMove in Playing(L) with non-empty history never leaves L's
\* current move count greater than it was.
C4_UndoNeverIncrements ==
    [][(Playing /\ Len(moves) > 0 /\ ReverseMove)
         => /\ Len(moves') < Len(moves)
            /\ scores'[level][2] <= scores[level][2]]_vars

\* C5: in Playing(L) a forward Move that succeeds adds exactly 1 to L's
\* current count and appends its direction to the history (as player_move
\* returns, and at the end of the cycle unless the move wins the level); a
\* rejected Move leaves count and history as they were.
C5_MoveCounting ==
    Playing =>
      \A key \in KeysOf("Move") : \A sound_ok \in BOOLEAN :
        \E after \in {player_move(read_input(key).arg, GameState, TRUE, sound_ok)} :
          \E end \in {LoopBody(GameState, key, sound_ok)} :
            /\ Successful(read_input(key).arg) =>
                 /\ after.scores[level][2] = scores[level][2] + 1
                 /\ after.moves = Append(moves, read_input(key).arg)
                 /\ after.pc = "running"
                 /\ end.moves = after.moves
                 /\ end.level = level => end.scores = after.scores
            /\ Rejected(read_input(key).arg) =>
                 /\ after.scores = scores /\ after.moves = moves
                 /\ end.scores = scores /\ end.moves = moves

C5_Witness ==
    /\ Playing
    /\ level = "One"
    /\ moves = <<"Up">>
    /\ scores["One"][2] = 1

\* C6: a Move onto a Wall, or onto a box with a box or wall beyond it,
\* leaves the grid and the player position unchanged.
C6_RejectedMoveFrame ==
    Playing =>
      \A key \in KeysOf("Move") : \A sound_ok \in BOOLEAN :
        Rejected(read_input(key).arg) =>
          \E after \in {LoopBody(GameState, key, sound_ok)} :
            /\ after.grid = grid
            /\ after.player_position = player_position

C6_Witness ==
    /\ Playing
    /\ level = "Five"
    /\ moves = <<"Left", "Right">>
    /\ BlockedByBox("Down")

\* C7: every win of level L leaves L's current move count 0 and the session
\* Idle.
C7_WinResetsCurrent ==
    [][WinStep => (level' = NoLevel /\ scores'[level][2] = 0)]_vars

\* C8: on a win of L with current count c and best b, best becomes c when
\* b = 0 or c < b (new-record screen) and stays b otherwise (no-record
\* screen); no other level's entry changes.
C8_BestUpdate ==
    pc = "running" =>
      \A key \in KeyEvents : \A sound_ok \in BOOLEAN :
        \E mid \in {do_action(GameState, key, sound_ok).gs} :
          \E after \in {LoopBody(GameState, key, sound_ok)} :
            (mid.level # NoLevel /\ after.level = NoLevel
               /\ after.pc = "running") =>
              LET b == mid.scores[mid.level][1]
                  c == mid.scores[mid.level][2]
              IN  /\ DOMAIN after.scores = DOMAIN mid.scores
                  /\ \A l \in DOMAIN mid.scores \ {mid.level} :
                       /\ after.scores[l] = mid.scores[l]
                       /\ l \in DOMAIN scores => after.scores[l] = scores[l]
                  /\ IF b = 0 \/ c < b
                     THEN /\ after.scores[mid.level][1] = c
                          /\ after.grid = WonRecordText(c, b)
                     ELSE /\ after.scores[mid.level][1] = b
                          /\ after.grid = WonText(c, b)

C8_Witness ==
    /\ pc = "running"
    /\ level = NoLevel
    /\ grid = WonText(1, 1)
    /\ scores["One"][1] = 1

\* C9: ChooseLevel ends its cycle Idle, showing the level picker, with every
\* score entry as before.
C9_ChooseLevelFrame ==
    [][LevelChoose => (/\ level' = NoLevel
                       /\ grid' = LevelPickerText
                       /\ scores' = scores)]_vars

\* C10: Reset in Playing(L) restores L's starting grid and position, empties
\* the history, stays in Playing(L) and keeps L's best and every other
\* level's entry; Reset while Idle changes nothing.
C10_Reset ==
    pc = "running" =>
      \A key \in KeysOf("Reset") : \A sound_ok \in BOOLEAN :
        \E after \in {LoopBody(GameState, key, sound_ok)} :
          IF level # NoLevel
          THEN /\ after.grid = StartGrid(level)
               /\ after.player_position = StartPosition(level)
               /\ after.moves = <<>>
               /\ after.level = level
               /\ after.pc = "running"
               /\ DOMAIN after.scores = DOMAIN scores
               /\ after.scores[level][1] = scores[level][1]
               /\ \A l \in DOMAIN scores \ {level} : after.scores[l] = scores[l]
          ELSE after = GameState

C10_Witness ==
    /\ Playing
    /\ moves = <<>>
    /\ grid = StartGrid(level)
    /\ player_position = StartPosition(level)
    /\ scores[level] = <<1, 0>>
    /\ Cardinality(DOMAIN scores) = 2

\* C11: SelectLevel(L) leaves L active with an empty history and L's current
\* count 0; a best already recorded for L is kept, and a level selected for
\* the first time gets the entry (0, 0).
C11_SelectLevel ==
    pc = "running" =>
      \A key \in KeysOf("LevelSelect") : \A sound_ok \in BOOLEAN :
        \E after \in {LoopBody(GameState, key, sound_ok)} :
          /\ after.pc = "running"
          /\ after.level = read_input(key).arg
          /\ after.moves = <<>>
          /\ after.scores[read_input(key).arg] =
               IF read_input(key).arg \in DOMAIN scores
               THEN <<scores[read_input(key).arg][1], 0>>
               ELSE <<0, 0>>

\* level One selected again after it was won in one move
C11_Witness ==
    /\ Playing
    /\ level = "One"
    /\ grid = GridOne
    /\ moves = <<>>
    /\ scores["One"] = <<1, 0>>
    /\ DOMAIN scores = {"One"}

\* a fresh session in which level One has just been selected
FreshLevelOne ==
    /\ Playing
    /\ level = "One"
    /\ grid = GridOne
    /\ player_position = StartOne
    /\ moves = <<>>
    /\ scores = [l \in {"One"} |-> <<0, 0>>]

\* C12: from a fresh session, SelectLevel(One) then Move(Left) pushes the
\* box from (2,2) onto the target (1,2) as BoxOnTarget, puts the player at
\* (2,2), leaves no plain Box, and the win fires in that cycle with move
\* count 1: best of level One becomes 1 and the session is Idle.
C12_LevelOneRoundTrip ==
    FreshLevelOne =>
      \A key \in {k \in KeysOf("Move") : read_input(k).arg = "Left"} :
        \A sound_ok \in BOOLEAN :
          \E mid \in {do_action(GameState, key, sound_ok).gs} :
            \E after \in {LoopBody(GameState, key, sound_ok)} :
              /\ Cell(grid, <<2, 2>>) = "$"
              /\ Cell(grid, <<1, 2>>) = "."
              /\ Cell(mid.grid, <<1, 2>>) = "*"
              /\ Cell(mid.grid, <<2, 2>>) = "@"
              /\ mid.player_position = <<2, 2>>
              /\ ~HasBox(mid.grid)
              /\ mid.scores["One"] = <<0, 1>>
              /\ after.pc = "running"
              /\ after.level = NoLevel
              /\ after.scores["One"][1] = 1
              /\ after.grid = WonRecordText(1, 0)

C12_Witness ==
    /\ pc = "running"
    /\ level = NoLevel
    /\ grid = WonRecordText(1, 0)
    /\ player_position = <<2, 2>>
    /\ moves = <<"Left">>
    /\ scores = [l \in {"One"} |-> <<1, 0>>]

\* a Move in direction d is a plain step: its target cell is Floor or Target
PlainMove(d) ==
    Cell(grid, TargetCell(d)) \in {" ", "."}

\* C13: in Playing(L), an UndoMove right after a successful plain Move from
\* p puts the player back at p, restores the grid of before the Move and
\* leaves the history one entry shorter than before the UndoMove.
C13_UndoPlainMove ==
    Playing =>
      \A key \in KeysOf("Move") : \A undo \in KeysOf("ReverseMove") :
        PlainMove(read_input(key).arg) =>
          \E moved \in {LoopBody(GameState, key, TRUE)} :
            \E after \in {LoopBody(moved, undo, TRUE)} :
              /\ after.pc = "running"
              /\ after.player_position = player_position
              /\ after.grid = grid
              /\ Len(after.moves) = Len(moved.moves) - 1

\* the characters the key table maps to a command
MappedCodes ==
    {"q", "m", "w", "a", "s", "d", "r", "b", "1", "2", "3", "4", "5"}

\* C14: a key event that is not a press of a mapped character changes
\* nothing: grid, position, level, scores and history are as before the cycle.
C14_UnmappedInput ==
    pc = "running" =>
      \A key \in {k \in KeyEvents : k.kind # "Press" \/ k.code \notin MappedCodes} :
        \A sound_ok \in BOOLEAN :
          LoopBody(GameState, key, sound_ok) = GameState

\* a level in play with a recorded best and a non-empty history
C14_Witness ==
    /\ Playing
    /\ moves # <<>>
    /\ scores[level][1] > 0
    /\ HasBox(grid)

\* C15: a failing sound cue never stops the loop: after a Move in Playing(L)
\* (rejected or not) the session is still running.
C15_AudioFailureNoCrash ==
    [][(Playing /\ Move) => pc' = "running"]_vars

\* C16: an UndoMove while no level is active is a no-op, also with a
\* non-empty history: no crash and no change of state.
C16_UndoWhileIdle ==
    [][(pc = "running" /\ level = NoLevel /\ ReverseMove)
         => (pc' = "running" /\ UNCHANGED vars)]_vars

\* C17: once a level's best is non-zero it never increases and never goes
\* back to 0.
C17_BestMonotone ==
    [][\A l \in DOMAIN scores :
         scores[l][1] # 0 =>
           /\ l \in DOMAIN scores'
           /\ scores'[l][1] # 0
           /\ scores'[l][1] <= scores[l][1]]_vars

\* C20: while a level is active the cell at the recorded player position
\* holds Player or PlayerOnTarget.
C20_PositionOnPlayer ==
    level # NoLevel =>
      /\ InRange(grid, player_position)
      /\ Cell(grid, player_position) \in {"@", "+"}

\* the number of Box / BoxOnTarget cells of a grid
BoxCells(g) ==
    Cardinality({c \in UNION {{<<x, y>> : x \in 0..(Len(g[y + 1]) - 1)} :
                                y \in 0..(Len(g) - 1)} :
                   Cell(g, c) \in {"$", "*"}})

\* C18: while a level is active the player position, the target cell of a
\* Move or UndoMove in any direction and, when the target holds a box, the
\* push cell are valid indices of the ragged grid (row within the grid,
\* column within that row), so no Move or UndoMove cycle panics on an index.
C18_IndicesInRange ==
    Playing =>
      /\ InRange(grid, player_position)
      /\ \A d \in MoveDirection :
           /\ ~NextPositionPanics(d, player_position, grid)
           /\ InRange(grid, TargetCell(d))
           /\ Cell(grid, TargetCell(d)) \in {"$", "*"} =>
                /\ ~NextPositionPanics(d, TargetCell(d), grid)
                /\ InRange(grid, PushCell(d))
      /\ \A key \in KeysOf("Move") \cup KeysOf("ReverseMove") :
           \E after \in {LoopBody(GameState, key, TRUE)} :
             /\ after.pc = "running"
             /\ after.level # NoLevel => InRange(after.grid, after.player_position)

\* level Two, back on (8,5) under the ten-column row 4 and the nine-column
\* rows above it, after a step away and back
C18_Witness ==
    /\ Playing
    /\ level = "Two"
    /\ player_position = <<8, 5>>
    /\ Len(moves) = 10

\* C19: while a level is active the grid holds as many boxes (Box or
\* BoxOnTarget) as the level's starting grid.
C19_BoxesPreserved ==
    level # NoLevel => BoxCells(grid) = BoxCells(StartGrid(level))
====
